---- MODULE Spec2Model ----
(***************************************************************************)
(* A model of encore's ProgressManager (events/progress_events.py) and of  *)
(* SqliteStore (storage/sqlite_store.py).                                  *)
(*                                                                         *)
(* The event manager is the list `events` of the events handed to          *)
(* event_manager.emit, in emission order.  `trace` is a history variable:  *)
(* one record per call made on the objects, with the arguments, the        *)
(* exception the call raised and the state the call started in.            *)
(***************************************************************************)
EXTENDS Integers, Sequences, FiniteSets, TLC

VARIABLES
    _running,       \* ProgressManager._running
    _step_count,    \* ProgressManager._step_count
    events,         \* events passed to event_manager.emit, oldest first
    pc,             \* "idle": outside a with block, "body": inside its body
    trace,          \* history: the calls made on the ProgressManager so far
    _connection,    \* SqliteStore._connection: "None" or "open"
    _data,          \* SqliteStore._data: Missing while the attribute is not set
    _metadata,      \* SqliteStore._metadata: Missing while the attribute is not set
    database,       \* the sqlite database at SqliteStore.location
    store_call      \* history: the last call made on the SqliteStore

pmvars == <<_running, _step_count, pc, trace>>
storevars == <<_connection, _data, _metadata, database, store_call>>
vars == <<_running, _step_count, events, pc, trace,
          _connection, _data, _metadata, database, store_call>>

(***************************************************************************)
(* Bounds                                                                  *)
(***************************************************************************)
\* number of calls in one behaviour
MaxCalls == 4

(***************************************************************************)
(* Python values                                                           *)
(***************************************************************************)
\* None, for an optional string argument or a return value
None == "None"
\* an omitted step number; a given one is <<n>>
NoStep == << >>
\* no exception: a call that returned, or a with block left normally
NoExc == [type |-> "NoneType", text |-> ""]

\* str(exc_value): the text of an exception
str(exc) == exc.text

\* raise Exception(text)
Exception(text) == [type |-> "Exception", text |-> text]

\* the errors the body of a with block raises
BodyErrors == {[type |-> "ValueError", text |-> "boom"],
               [type |-> "IOError", text |-> "read failed"]}

\* message arguments of step(), end() and __call__()
MessageArgs == {None, "m1"}
\* step arguments of step() and __call__()
StepArgs == {NoStep, <<7>>}
\* the exit states the documentation of ProgressEndEvent lists
ExitStates == {"normal", "warning", "error", "exception"}
\* exit_state arguments of end(): the default, a documented one, any other string
ExitStateArgs == {"normal", "error", "done"}

(***************************************************************************)
(* ProgressManager                                                         *)
(***************************************************************************)
\* constructor arguments of the ProgressManager under test
OperationId == "op1"
Message == "Performing operation"
Steps == -1

StartEventType(operation_id, message, steps) ==
    [type |-> "ProgressStartEvent", operation_id |-> operation_id,
     message |-> message, steps |-> steps]

StepEventType(operation_id, message, step_number) ==
    [type |-> "ProgressStepEvent", operation_id |-> operation_id,
     message |-> message, step |-> step_number]

EndEventType(operation_id, message, exit_state) ==
    [type |-> "ProgressEndEvent", operation_id |-> operation_id,
     message |-> message, exit_state |-> exit_state]

\* ProgressManager(event_manager, source, operation_id, message, steps):
\* a new manager emitting into the event log `log`
ProgressManager(log, operation_id, message, steps) ==
    [operation_id |-> operation_id, message |-> message, steps |-> steps,
     step_count |-> 0, running |-> FALSE,
     events |-> log, raised |-> NoExc, ret |-> None]

\* event_manager.emit(event): the listeners are notified and return
emit(log, event) == Append(log, event)

\* the ProgressManager object before a call; raised and ret are the call's outcome
PM == [ProgressManager(events, OperationId, Message, Steps)
           EXCEPT !.running = _running, !.step_count = _step_count]

\* start() that emits the Start event only the first time
start_once(self) ==
    IF \E i \in 1..Len(self.events) : self.events[i].type = "ProgressStartEvent"
    THEN [self EXCEPT !.running = TRUE]
    ELSE [self EXCEPT !.running = TRUE,
                      !.events = emit(@, StartEventType(self.operation_id, self.message,
                                                        self.steps))]

start(self) ==
    [self EXCEPT !.running = TRUE,
                 !.events = emit(@, StartEventType(self.operation_id, self.message,
                                                   self.steps))]

\* step() that numbers an unnumbered step after incrementing the counter
step_counts_first(self, message, step_number) ==
    IF ~self.running
    THEN [self EXCEPT !.raised = Exception("ProgressManager.step() called before start()")]
    ELSE LET m == IF message = None THEN self.message ELSE message
             n == IF step_number = NoStep THEN self.step_count + 1 ELSE step_number[1]
         IN [self EXCEPT !.events = emit(@, StepEventType(self.operation_id, m, n)),
                         !.step_count = @ + 1]

\* step() without the check of _running
step_unchecked(self, message, step_number) ==
    LET m == IF message = None THEN self.message ELSE message
        n == IF step_number = NoStep THEN self.step_count ELSE step_number[1]
    IN [self EXCEPT !.events = emit(@, StepEventType(self.operation_id, m, n)),
                    !.step_count = @ + 1]

\* step() that leaves the counter as it is
step_never_counts(self, message, step_number) ==
    IF ~self.running
    THEN [self EXCEPT !.raised = Exception("ProgressManager.step() called before start()")]
    ELSE LET m == IF message = None THEN self.message ELSE message
             n == IF step_number = NoStep THEN self.step_count ELSE step_number[1]
         IN [self EXCEPT !.events = emit(@, StepEventType(self.operation_id, m, n))]

step(self, message, step_number) ==
    IF ~self.running
    THEN [self EXCEPT !.raised = Exception("ProgressManager.step() called before start()")]
    ELSE LET m == IF message = None THEN self.message ELSE message
             n == IF step_number = NoStep THEN self.step_count ELSE step_number[1]
         IN [self EXCEPT !.events = emit(@, StepEventType(self.operation_id, m, n)),
                         !.step_count = @ + 1]

\* end() without the check of _running
end_unchecked(self, message, exit_state) ==
    LET m == IF message = None THEN self.message ELSE message
    IN [self EXCEPT !.events = emit(@, EndEventType(self.operation_id, m, exit_state)),
                    !.running = FALSE]

\* end() that leaves _running set
end_stays_running(self, message, exit_state) ==
    IF ~self.running
    THEN [self EXCEPT !.raised = Exception("ProgressManager.end() called before start()")]
    ELSE LET m == IF message = None THEN self.message ELSE message
         IN [self EXCEPT !.events = emit(@, EndEventType(self.operation_id, m, exit_state))]

\* end() that also resets the step counter
end_resets_count(self, message, exit_state) ==
    IF ~self.running
    THEN [self EXCEPT !.raised = Exception("ProgressManager.end() called before start()")]
    ELSE LET m == IF message = None THEN self.message ELSE message
         IN [self EXCEPT !.events = emit(@, EndEventType(self.operation_id, m, exit_state)),
                         !.running = FALSE, !.step_count = 0]

end(self, message, exit_state) ==
    IF ~self.running
    THEN [self EXCEPT !.raised = Exception("ProgressManager.end() called before start()")]
    ELSE LET m == IF message = None THEN self.message ELSE message
         IN [self EXCEPT !.events = emit(@, EndEventType(self.operation_id, m, exit_state)),
                         !.running = FALSE]

\* __call__() that starts the operation on every call
call_always_starts(self, message, step_number) ==
    step(start(self), message, step_number)

__call__(self, message, step_number) ==
    LET started == IF ~self.running THEN start(self) ELSE self
    IN step(started, message, step_number)

__enter__(self) ==
    IF ~self.running THEN start(self) ELSE self

\* __exit__ that ends the operation only when the block ended normally
exit_normal_only(self, exc_value) ==
    IF self.running /\ exc_value = NoExc
    THEN end(self, None, "normal")
    ELSE self

\* __exit__ that reports the exception with the manager's own message
exit_default_message(self, exc_value) ==
    IF self.running
    THEN IF exc_value # NoExc
         THEN end(self, None, "exception")
         ELSE end(self, None, "normal")
    ELSE self

\* __exit__ that returns True: the with statement then drops the exception
exit_returns_true(self, exc_value) ==
    IF self.running
    THEN IF exc_value # NoExc
         THEN [end(self, str(exc_value), "exception") EXCEPT !.ret = "True"]
         ELSE [end(self, None, "normal") EXCEPT !.ret = "True"]
    ELSE [self EXCEPT !.ret = "True"]

\* __exit__ that ends the operation whether it is running or not
exit_always_ends(self, exc_value) ==
    IF exc_value # NoExc
    THEN end(self, str(exc_value), "exception")
    ELSE end(self, None, "normal")

__exit__(self, exc_value) ==
    IF self.running
    THEN IF exc_value # NoExc
         THEN end(self, str(exc_value), "exception")
         ELSE end(self, None, "normal")
    ELSE self

(***************************************************************************)
(* Calls on the ProgressManager                                            *)
(***************************************************************************)
Commit(r) ==
    /\ _running' = r.running
    /\ _step_count' = r.step_count
    /\ events' = r.events

\* the history record of one call on the ProgressManager
PMCall(op, message, step_number, exit_state, exc, r, propagated) ==
    [op |-> op, message |-> message, step |-> step_number,
     exit_state |-> exit_state, exc |-> exc,
     raised |-> r.raised, propagated |-> propagated,
     pre_running |-> _running, pre_count |-> _step_count,
     pre_len |-> Len(events), post_len |-> Len(r.events)]

Start ==
    /\ Len(trace) < MaxCalls
    /\ LET r == start(PM)
       IN /\ Commit(r)
          /\ trace' = Append(trace, PMCall("start", None, NoStep, None, NoExc, r, r.raised))
    /\ UNCHANGED <<pc, storevars>>

Step ==
    /\ Len(trace) < MaxCalls
    /\ \E message \in MessageArgs, step_number \in StepArgs :
          LET r == step(PM, message, step_number)
          IN /\ Commit(r)
             /\ trace' = Append(trace,
                    PMCall("step", message, step_number, None, NoExc, r, r.raised))
    /\ UNCHANGED <<pc, storevars>>

End ==
    /\ Len(trace) < MaxCalls
    /\ \E message \in MessageArgs, exit_state \in ExitStateArgs :
          LET r == end(PM, message, exit_state)
          IN /\ Commit(r)
             /\ trace' = Append(trace,
                    PMCall("end", message, NoStep, exit_state, NoExc, r, r.raised))
    /\ UNCHANGED <<pc, storevars>>

Call ==
    /\ Len(trace) < MaxCalls
    /\ \E message \in MessageArgs, step_number \in StepArgs :
          LET r == __call__(PM, message, step_number)
          IN /\ Commit(r)
             /\ trace' = Append(trace,
                    PMCall("__call__", message, step_number, None, NoExc, r, r.raised))
    /\ UNCHANGED <<pc, storevars>>

\* `with progress_manager as progress:` is reached
Enter ==
    /\ Len(trace) < MaxCalls
    /\ pc = "idle"
    /\ LET r == __enter__(PM)
       IN /\ Commit(r)
          /\ trace' = Append(trace, PMCall("__enter__", None, NoStep, None, NoExc, r, r.raised))
    /\ pc' = "body"
    /\ UNCHANGED storevars

\* the body of the with block is left: normally (exc = NoExc) or by raising exc.
\* The with statement re-raises exc unless __exit__ returns a true value.
Exit ==
    /\ Len(trace) < MaxCalls
    /\ pc = "body"
    /\ \E exc \in BodyErrors \cup {NoExc} :
          LET r == __exit__(PM, exc)
              propagated == IF r.raised # NoExc THEN r.raised
                            ELSE IF exc # NoExc /\ r.ret # "True" THEN exc
                            ELSE NoExc
          IN /\ Commit(r)
             /\ trace' = Append(trace,
                    PMCall("__exit__", None, NoStep, None, exc, r, propagated))
    /\ pc' = "idle"
    /\ UNCHANGED storevars

NextProgress == Start \/ Step \/ End \/ Call \/ Enter \/ Exit

(***************************************************************************)
(* SqliteStore: values                                                     *)
(***************************************************************************)
\* an attribute that was never assigned on the instance
Missing == [missing |-> TRUE]
\* an omitted select argument; a given one is <<set of metadata keys>>
NoSelect == << >>

Keys == {"k1", "k2"}
\* metadata keys, in the order the serialised form lists them
MetadataKeys == <<"owner", "status">>
MetadataValues == {"done", "pending"}
\* the metadata dictionaries: every mapping of some metadata keys to values
Metadatas ==
    UNION {[ks -> MetadataValues] :
              ks \in SUBSET {MetadataKeys[i] : i \in 1..Len(MetadataKeys)}}
\* byte strings
Datas == {<< >>, <<104, 105>>}
\* in a data source, the place where data.read() raises instead of returning bytes
ReadFailure == -1
\* the error a data source raises when reading it fails
ReadError == [type |-> "IOError", text |-> "read failed"]
\* the file-like data arguments of set() and set_data(): streams that read to
\* their end, and one whose read fails after two bytes
Sources == Datas \cup {<<104, 105, ReadFailure>>}
SelectArgs == {NoSelect, <<{"status"}>>, <<{"owner", "status"}>>}
\* keyword arguments of query(): metadata key -> wanted value (None: query(owner=None))
Predicates ==
    {<< >>, [status |-> "done"], [status |-> "pending"],
     [owner |-> "pending", status |-> "pending"], [owner |-> None]}
\* keys arguments of multiset()
KeyLists == {<<"k1", "k2", "k3">>, <<"k2", "k1">>, <<"k1">>}
\* values arguments of multiset(): (data, metadata) pairs
ValueLists ==
    {<< <<<<104, 105>>, [status |-> "done"]>>, <<<< >>, << >>>> >>,
     << <<<< >>, [status |-> "pending"]>> >>}
BufferSizes == {1, 1048576}

AttributeError(text) == [type |-> "AttributeError", text |-> text]
KeyError(key) == [type |-> "KeyError", text |-> key]
NameError(name) == [type |-> "NameError", text |-> name]
OperationalError(text) == [type |-> "OperationalError", text |-> text]

\* cPickle.dumps(d): the items of the dictionary, as a byte string
adapt_dict(d) ==
    LET present == SelectSeq(MetadataKeys, LAMBDA k : k \in DOMAIN d)
    IN [i \in 1..Len(present) |-> <<present[i], d[present[i]]>>]

\* cPickle.loads(s): the dictionary of the serialised items
convert_dict(s) ==
    [k \in {s[i][1] : i \in 1..Len(s)} |->
        s[CHOOSE i \in 1..Len(s) : s[i][1] = k][2]]

\* cStringIO.StringIO(bytes): a readable stream positioned at its start
StringIO(bytes) == [content |-> bytes, pos |-> 0]

\* constructor arguments of the SqliteStore under test
Table == "store"

\* the names bound at module level of sqlite_store.py
ModuleGlobals ==
    {"cStringIO", "sqlite3", "cPickle", "izip", "uuid4", "AbstractStore",
     "buffer_iterator", "DummyTransactionContext", "StoreProgressManager",
     "adapt_dict", "convert_dict", "SqliteStore"}

(***************************************************************************)
(* SqliteStore: methods.  `self` is the store object before the call, with *)
(* the database behind its connection and the event manager's log; raised  *)
(* and ret are the outcome of the call.                                    *)
(***************************************************************************)
STORE == [_connection |-> _connection, _data |-> _data, _metadata |-> _metadata,
          database |-> database, events |-> events,
          raised |-> NoExc, ret |-> None]

Raise(self, exc) == [self EXCEPT !.raised = exc]
Return(self, value) == [self EXCEPT !.ret = value]

\* self.<name> for an attribute that __init__ did not set
NoAttribute(name) ==
    AttributeError("'SqliteStore' object has no attribute '" \o name \o "'")

\* d[key] = value on a dictionary
setitem(d, key, value) ==
    [k \in DOMAIN d \cup {key} |-> IF k = key THEN value ELSE d[k]]

\* del d[key] on a dictionary that has key
delitem(d, key) == [k \in DOMAIN d \ {key} |-> d[k]]

\* d.update(other) on a dictionary
update(d, other) ==
    [k \in DOMAIN d \cup DOMAIN other |-> IF k \in DOMAIN other THEN other[k] ELSE d[k]]

\* d.get(key): None for a key the dictionary does not have
dict_get(d, key) == IF key \in DOMAIN d THEN d[key] ELSE None

\* dict((k, metadata[k]) for k in select if k in metadata)
select_metadata(metadata, select) ==
    [k \in select \cap DOMAIN metadata |-> metadata[k]]

\* self._connection.execute('select ... from <table> where key == ?', (key,)).fetchall()
\* The metadata column is declared `dict`: sqlite3 converts it with convert_dict.
execute_select(self, key) ==
    IF self._connection = None
    THEN [raised |-> AttributeError("'NoneType' object has no attribute 'execute'"),
          rows |-> << >>]
    ELSE IF Table \notin self.database.tables
    THEN [raised |-> OperationalError("no such table: " \o Table), rows |-> << >>]
    ELSE [raised |-> NoExc,
          rows |-> IF key \in DOMAIN self.database.rows
                   THEN <<[data |-> self.database.rows[key].data,
                           metadata |-> convert_dict(self.database.rows[key].metadata)]>>
                   ELSE << >>]

\* self.event_manager.emit(<Name>(self, key=key, metadata=metadata))
emit_store_event(self, name, key, metadata) ==
    IF name \notin ModuleGlobals
    THEN Raise(self, NameError("global name '" \o name \o "' is not defined"))
    ELSE [self EXCEPT !.events = emit(@, [type |-> name, key |-> key,
                                          metadata |-> metadata])]

connect(self) ==
    LET connected == [self EXCEPT !._connection = "open"]
    IN IF Table \notin connected.database.tables
       THEN \* create table ? (...): a table name cannot be a bound parameter
            Raise(connected, OperationalError("near \"?\": syntax error"))
       ELSE connected

disconnect(self) == [self EXCEPT !._connection = None]

get(self, key) ==
    LET q == execute_select(self, key)
    IN IF q.raised # NoExc THEN Raise(self, q.raised)
       ELSE IF Len(q.rows) = 0 THEN Raise(self, KeyError(key))
       ELSE Return(self, <<StringIO(q.rows[1].data), q.rows[1].metadata>>)

get_data(self, key) ==
    LET q == execute_select(self, key)
    IN IF q.raised # NoExc THEN Raise(self, q.raised)
       ELSE IF Len(q.rows) = 0 THEN Raise(self, KeyError(key))
       ELSE Return(self, StringIO(q.rows[1].data))

\* get_metadata() that looks up every selected field: dict((k, metadata[k]) for k in select)
get_metadata_strict(self, key, select) ==
    LET q == execute_select(self, key)
    IN IF q.raised # NoExc THEN Raise(self, q.raised)
       ELSE IF Len(q.rows) = 0 THEN Raise(self, KeyError(key))
       ELSE IF select # NoSelect
       THEN IF select[1] \subseteq DOMAIN q.rows[1].metadata
            THEN Return(self, select_metadata(q.rows[1].metadata, select[1]))
            ELSE Raise(self, KeyError(CHOOSE k \in select[1] : k \notin DOMAIN q.rows[1].metadata))
       ELSE Return(self, q.rows[1].metadata)

get_metadata(self, key, select) ==
    LET q == execute_select(self, key)
    IN IF q.raised # NoExc THEN Raise(self, q.raised)
       ELSE IF Len(q.rows) = 0 THEN Raise(self, KeyError(key))
       ELSE IF select # NoSelect
       THEN Return(self, select_metadata(q.rows[1].metadata, select[1]))
       ELSE Return(self, q.rows[1].metadata)

\* the chunks buffer_iterator(data, buffer_size, progress) yields
RECURSIVE chunks(_, _)
chunks(data, buffer_size) ==
    IF Len(data) = 0 THEN << >>
    ELSE IF Len(data) <= buffer_size THEN <<data>>
    ELSE <<SubSeq(data, 1, buffer_size)>>
         \o chunks(SubSeq(data, buffer_size + 1, Len(data)), buffer_size)

\* list(buffer_iterator(data, buffer_size, progress)): progress() once per chunk read
RECURSIVE buffer_iterator(_, _)
buffer_iterator(progress, n) ==
    IF n = 0 THEN progress
    ELSE buffer_iterator(__call__(progress, None, NoStep), n - 1)

\* b''.join(chunks)
RECURSIVE join(_)
join(cs) == IF Len(cs) = 0 THEN << >> ELSE Head(cs) \o join(Tail(cs))

\* set_data() that creates the data dictionary when the attribute is not set:
\* getattr(self, '_data', {}), then self._data[key] = b''.join(chunks)
set_data_default_dict(self, key, data, buffer_size) ==
    LET d == IF self._data = Missing THEN << >> ELSE self._data
    IN [self EXCEPT !._data = setitem(d, key, join(chunks(data, buffer_size)))]

\* reading the data source raises before its end
read_fails(data) == \E i \in 1..Len(data) : data[i] = ReadFailure

\* the bytes the data source gives before its read raises (all, if none does)
readable(data) ==
    IF read_fails(data)
    THEN SubSeq(data, 1, (CHOOSE i \in 1..Len(data) :
                            /\ data[i] = ReadFailure
                            /\ \A j \in 1..(i - 1) : data[j] # ReadFailure) - 1)
    ELSE data

set_data(self, key, data, buffer_size) ==
    IF self._data = Missing THEN Raise(self, NoAttribute("_data"))
    ELSE IF self._metadata = Missing THEN Raise(self, NoAttribute("_metadata"))
    ELSE
    LET update_ == key \in DOMAIN self._data
        metadata == dict_get(self._metadata, key)
        \* the chunks read in full; a read that fails yields no chunk
        cs == IF read_fails(data)
              THEN SubSeq(chunks(readable(data), buffer_size), 1,
                          Len(readable(data)) \div buffer_size)
              ELSE chunks(data, buffer_size)
        entered == __enter__(ProgressManager(self.events, "uuid4",
                                             "Setting data into '" \o key \o "'", -1))
        progress == buffer_iterator(entered, Len(cs))
        exited == __exit__(progress, IF read_fails(data) THEN ReadError ELSE NoExc)
        stored == [self EXCEPT !._data = setitem(@, key, join(cs)),
                               !.events = exited.events]
    IN IF read_fails(data)
       THEN \* the with statement re-raises the error: __exit__ returns None
            Raise([self EXCEPT !.events = exited.events], ReadError)
       ELSE IF update_
       THEN emit_store_event(stored, "StoreUpdateEvent", key, metadata)
       ELSE emit_store_event(stored, "StoreSetEvent", key, metadata)

set(self, key, value, buffer_size) ==
    IF self._metadata = Missing THEN Raise(self, NoAttribute("_metadata"))
    ELSE set_data([self EXCEPT !._metadata = setitem(@, key, value[2])],
                  key, value[1], buffer_size)

delete(self, key) ==
    IF self._data = Missing THEN Raise(self, NoAttribute("_data"))
    ELSE IF key \notin DOMAIN self._data THEN Raise(self, KeyError(key))
    ELSE LET deleted == [self EXCEPT !._data = delitem(@, key)]
         IN IF deleted._metadata = Missing THEN Raise(deleted, NoAttribute("_metadata"))
            ELSE IF key \notin DOMAIN deleted._metadata THEN Raise(deleted, KeyError(key))
            ELSE emit_store_event([deleted EXCEPT !._metadata = delitem(@, key)],
                                  "StoreDeleteEvent", key, deleted._metadata[key])

exists(self, key) ==
    IF self._data = Missing THEN Raise(self, NoAttribute("_data"))
    ELSE IF key \notin DOMAIN self._data THEN Return(self, FALSE)
    ELSE IF self._metadata = Missing THEN Raise(self, NoAttribute("_metadata"))
    ELSE Return(self, key \in DOMAIN self._metadata)

set_metadata(self, key, metadata) ==
    IF self._metadata = Missing THEN Raise(self, NoAttribute("_metadata"))
    ELSE LET update_ == key \in DOMAIN self._metadata
             stored == [self EXCEPT !._metadata = setitem(@, key, metadata)]
         IN IF update_
            THEN emit_store_event(stored, "StoreUpdateEvent", key, metadata)
            ELSE emit_store_event(stored, "StoreSetEvent", key, metadata)

update_metadata(self, key, metadata) ==
    IF self._metadata = Missing THEN Raise(self, NoAttribute("_metadata"))
    ELSE IF key \notin DOMAIN self._metadata THEN Raise(self, KeyError(key))
    ELSE LET stored == [self EXCEPT !._metadata[key] = update(@, metadata)]
         IN emit_store_event(stored, "StoreUpdateEvent", key, stored._metadata[key])

\* AbstractStore.multiset(keys, values, buffer_size):
\* for key, value in izip(keys, values): self.set(key, value, buffer_size)
RECURSIVE multiset(_, _, _, _)
multiset(self, keys, values, buffer_size) ==
    IF Len(keys) = 0 \/ Len(values) = 0 THEN self
    ELSE LET r == set(self, Head(keys), Head(values), buffer_size)
         IN IF r.raised # NoExc THEN r
            ELSE multiset(r, Tail(keys), Tail(values), buffer_size)

\* the rows `select key, metadata from <table>` returns, in the order `order`
\* of the keys; the metadata column is converted with convert_dict
execute_select_all(self, order) ==
    IF self._connection = None
    THEN [raised |-> AttributeError("'NoneType' object has no attribute 'execute'"),
          rows |-> << >>]
    ELSE IF Table \notin self.database.tables
    THEN [raised |-> OperationalError("no such table: " \o Table), rows |-> << >>]
    ELSE [raised |-> NoExc,
          rows |-> [i \in 1..Len(order) |->
                       <<order[i], convert_dict(self.database.rows[order[i]].metadata)>>]]

\* all(metadata.get(arg) == value for arg, value in kwargs.items())
matches(metadata, kwargs) ==
    \A arg \in DOMAIN kwargs : dict_get(metadata, arg) = kwargs[arg]

\* query() that yields the rows matching any of the predicates
query_any(self, select, kwargs, order) ==
    LET q == execute_select_all(self, order)
        matching == SelectSeq(q.rows,
                        LAMBDA row : \E arg \in DOMAIN kwargs :
                                         dict_get(row[2], arg) = kwargs[arg])
    IN IF q.raised # NoExc THEN Raise(self, q.raised)
       ELSE IF select # NoSelect
       THEN Return(self, [i \in 1..Len(matching) |->
                <<matching[i][1], select_metadata(matching[i][2], select[1])>>])
       ELSE Return(self, [i \in 1..Len(matching) |-> <<matching[i][1], matching[i][2]>>])

\* list(self.query(select, **kwargs)): the pairs the generator yields
query(self, select, kwargs, order) ==
    LET q == execute_select_all(self, order)
        matching == SelectSeq(q.rows, LAMBDA row : matches(row[2], kwargs))
    IN IF q.raised # NoExc THEN Raise(self, q.raised)
       ELSE IF select # NoSelect
       THEN Return(self, [i \in 1..Len(matching) |->
                <<matching[i][1], select_metadata(matching[i][2], select[1])>>])
       ELSE Return(self, [i \in 1..Len(matching) |-> <<matching[i][1], matching[i][2]>>])

(***************************************************************************)
(* Calls on the SqliteStore                                                *)
(***************************************************************************)
\* the history record of one call on the store, r its outcome
StoreCall(op, key, data, metadata, select, r) ==
    [op |-> op, key |-> key, data |-> data, metadata |-> metadata,
     select |-> select, raised |-> r.raised, ret |-> r.ret,
     pre_connection |-> _connection, pre_database |-> database,
     pre_len |-> Len(events)]

\* the history record of one multiset() call
StoreMultiCall(op, keys, values, r) ==
    [op |-> op, keys |-> keys, values |-> values,
     raised |-> r.raised, ret |-> r.ret,
     pre_connection |-> _connection, pre_database |-> database,
     pre_len |-> Len(events)]

\* the history record of one query() call
StoreQueryCall(op, select, kwargs, r) ==
    [op |-> op, select |-> select, kwargs |-> kwargs,
     raised |-> r.raised, ret |-> r.ret,
     pre_connection |-> _connection, pre_database |-> database,
     pre_len |-> Len(events)]

\* the orders in which a scan of the table can return its rows
CursorOrders(db) ==
    LET ks == DOMAIN db.rows
    IN {order \in [1..Cardinality(ks) -> ks] :
           \A i, j \in 1..Cardinality(ks) : order[i] = order[j] => i = j}

NoCall == [op |-> "none"]

StoreCommit(r) ==
    /\ _connection' = r._connection
    /\ _data' = r._data
    /\ _metadata' = r._metadata
    /\ database' = r.database
    /\ events' = r.events
    /\ UNCHANGED pmvars

Connect ==
    LET r == connect(STORE)
    IN /\ StoreCommit(r)
       /\ store_call' = StoreCall("connect", None, << >>, << >>, NoSelect, r)

Disconnect ==
    LET r == disconnect(STORE)
    IN /\ StoreCommit(r)
       /\ store_call' = StoreCall("disconnect", None, << >>, << >>, NoSelect, r)

Get ==
    \E key \in Keys :
       LET r == get(STORE, key)
       IN /\ StoreCommit(r)
          /\ store_call' = StoreCall("get", key, << >>, << >>, NoSelect, r)

GetData ==
    \E key \in Keys :
       LET r == get_data(STORE, key)
       IN /\ StoreCommit(r)
          /\ store_call' = StoreCall("get_data", key, << >>, << >>, NoSelect, r)

GetMetadata ==
    \E key \in Keys, select \in SelectArgs :
       LET r == get_metadata(STORE, key, select)
       IN /\ StoreCommit(r)
          /\ store_call' = StoreCall("get_metadata", key, << >>, << >>, select, r)

Set ==
    \E key \in Keys, data \in Sources, metadata \in Metadatas, buffer_size \in BufferSizes :
       LET r == set(STORE, key, <<data, metadata>>, buffer_size)
       IN /\ StoreCommit(r)
          /\ store_call' = StoreCall("set", key, data, metadata, NoSelect, r)

SetData ==
    \E key \in Keys, data \in Sources, buffer_size \in BufferSizes :
       LET r == set_data(STORE, key, data, buffer_size)
       IN /\ StoreCommit(r)
          /\ store_call' = StoreCall("set_data", key, data, << >>, NoSelect, r)

SetMetadata ==
    \E key \in Keys, metadata \in Metadatas :
       LET r == set_metadata(STORE, key, metadata)
       IN /\ StoreCommit(r)
          /\ store_call' = StoreCall("set_metadata", key, << >>, metadata, NoSelect, r)

UpdateMetadata ==
    \E key \in Keys, metadata \in Metadatas :
       LET r == update_metadata(STORE, key, metadata)
       IN /\ StoreCommit(r)
          /\ store_call' = StoreCall("update_metadata", key, << >>, metadata, NoSelect, r)

Delete ==
    \E key \in Keys :
       LET r == delete(STORE, key)
       IN /\ StoreCommit(r)
          /\ store_call' = StoreCall("delete", key, << >>, << >>, NoSelect, r)

Exists ==
    \E key \in Keys :
       LET r == exists(STORE, key)
       IN /\ StoreCommit(r)
          /\ store_call' = StoreCall("exists", key, << >>, << >>, NoSelect, r)

Multiset ==
    \E keys \in KeyLists, values \in ValueLists, buffer_size \in BufferSizes :
       LET r == multiset(STORE, keys, values, buffer_size)
       IN /\ StoreCommit(r)
          /\ store_call' = StoreMultiCall("multiset", keys, values, r)

\* list(store.query(select, **kwargs)); the table is scanned in any order
Query ==
    \E select \in SelectArgs, kwargs \in Predicates, order \in CursorOrders(database) :
       LET r == query(STORE, select, kwargs, order)
       IN /\ StoreCommit(r)
          /\ store_call' = StoreQueryCall("query", select, kwargs, r)

NextStore ==
    \/ Connect \/ Disconnect
    \/ Get \/ GetData \/ GetMetadata
    \/ Set \/ SetData \/ SetMetadata \/ UpdateMetadata
    \/ Delete \/ Exists
    \/ Multiset \/ Query

(***************************************************************************)
(* Initial states and specifications                                       *)
(***************************************************************************)
\* the metadata of the rows found in an existing database
StoredMetadatas ==
    {<< >>, [status |-> "done"], [owner |-> "pending", status |-> "pending"]}

\* the rows found in an existing database, written through adapt_dict
Rows == {[metadata |-> adapt_dict(m), data |-> d] : m \in StoredMetadatas, d \in Datas}

\* the database found at `location`: new (no table, as ':memory:' always is), or
\* a file that already holds the table and some rows
Databases ==
    {[tables |-> {}, rows |-> << >>]}
    \cup {[tables |-> {Table}, rows |-> rows] :
             rows \in UNION {[ks -> Rows] : ks \in SUBSET Keys}}

\* ProgressManager.__init__, and a SqliteStore that is not used
InitProgress ==
    /\ _running = FALSE
    /\ _step_count = 0
    /\ events = << >>
    /\ pc = "idle"
    /\ trace = << >>
    /\ _connection = None
    /\ _data = Missing
    /\ _metadata = Missing
    /\ database = [tables |-> {}, rows |-> << >>]
    /\ store_call = NoCall

\* SqliteStore.__init__ (_data and _metadata are not assigned), and a
\* ProgressManager that is not used
InitStore ==
    /\ _connection = None
    /\ _data = Missing
    /\ _metadata = Missing
    /\ database \in Databases
    /\ store_call = NoCall
    /\ _running = FALSE
    /\ _step_count = 0
    /\ events = << >>
    /\ pc = "idle"
    /\ trace = << >>

\* a new ProgressManager and a new SqliteStore
Init == InitStore

Next == NextProgress \/ NextStore

\* a ProgressManager and a SqliteStore used by one caller
Spec == Init /\ [][Next]_vars

\* one ProgressManager used by a caller
SpecProgress == InitProgress /\ [][NextProgress]_vars

\* one SqliteStore used by a caller
SpecStore == InitStore /\ [][NextStore]_vars

(***************************************************************************)
(* Properties of the ProgressManager, checked under SpecProgress           *)
(***************************************************************************)
IsStart(e) == e.type = "ProgressStartEvent"
IsStep(e) == e.type = "ProgressStepEvent"
IsEnd(e) == e.type = "ProgressEndEvent"

\* the last call made on the ProgressManager
Last == trace[Len(trace)]
LastIs(op) == Len(trace) > 0 /\ Last.op = op

\* the __enter__ call of the with block entered last
ScopeEnter ==
    trace[CHOOSE i \in 1..Len(trace) :
              /\ trace[i].op = "__enter__"
              /\ \A j \in (i+1)..Len(trace) : trace[j].op # "__enter__"]

\* the with block left by the last call was left by an exception
LeftByRaising == LastIs("__exit__") /\ Last.exc # NoExc

\* the events emitted from the entry of that with block on
ScopeEvents == SubSeq(events, ScopeEnter.pre_len + 1, Len(events))

\* the body of that with block emitted nothing but Step events
BodyOnlySteps ==
    \A i \in (ScopeEnter.post_len + 1)..Last.pre_len : IsStep(events[i])

\* log is a Start event, any number of Step events, then one End event that
\* reports the exception exc
StartStepsExceptionEnd(log, exc) ==
    /\ Len(log) >= 2
    /\ IsStart(log[1])
    /\ \A i \in 2..(Len(log) - 1) : IsStep(log[i])
    /\ IsEnd(log[Len(log)])
    /\ log[Len(log)].exit_state = "exception"
    /\ log[Len(log)].message = str(exc)

\* log begins with a Start event and holds exactly one End event, its last
\* event, which reports the exception exc
StartThenOneExceptionEnd(log, exc) ==
    /\ Len(log) >= 2
    /\ IsStart(log[1])
    /\ \A i \in 2..(Len(log) - 1) : ~IsEnd(log[i])
    /\ IsEnd(log[Len(log)])
    /\ log[Len(log)].exit_state = "exception"
    /\ log[Len(log)].message = str(exc)

\* C1: once a with block on the manager has been left, normally or by an
\* exception, every Start event emitted so far is followed by an End event
\* and the operation is not running.
C1_ScopeAlwaysEnds ==
    LastIs("__exit__") =>
        /\ ~_running
        /\ \A i \in 1..Len(events) :
              IsStart(events[i]) => \E j \in (i+1)..Len(events) : IsEnd(events[j])

\* a with block that started the operation was left by an exception while running
C1_Witness ==
    /\ LeftByRaising
    /\ Last.pre_running
    /\ ~ScopeEnter.pre_running

\* C2 as claimed, for any body: a with block (entered while the operation is
\* not running, so that it emits the Start event) whose body raises has emitted
\* a Start event and then exactly one End event, the last event, with
\* exit_state 'exception' and the text of the error as message.
C2_AnyBody ==
    (LeftByRaising /\ ~ScopeEnter.pre_running) =>
        StartThenOneExceptionEnd(ScopeEvents, Last.exc)

\* C2, amended: the same, for a with block whose body emitted only Step events
\* (it called neither start() nor end()) before it raised.
C2_StepOnlyBody ==
    (LeftByRaising /\ ~ScopeEnter.pre_running /\ BodyOnlySteps) =>
        StartStepsExceptionEnd(ScopeEvents, Last.exc)

\* a block entered while not running, whose body stepped and then raised
C2_Witness ==
    /\ LeftByRaising
    /\ ~ScopeEnter.pre_running
    /\ BodyOnlySteps
    /\ Len(ScopeEvents) >= 3

\* C3: when the body of a with block raises, the same error propagates to the
\* caller of the block, and by then the End event has been emitted: the
\* operation is not running, and if it was running when the body raised,
\* __exit__ emitted the End event that reports the error.
C3_ErrorPropagates ==
    LeftByRaising =>
        /\ Last.propagated = Last.exc
        /\ ~_running
        /\ Last.pre_running =>
              /\ Len(events) = Last.pre_len + 1
              /\ IsEnd(events[Len(events)])
              /\ events[Len(events)].exit_state = "exception"

\* the body raised while the operation was running
C3_Witness ==
    /\ LeftByRaising
    /\ Last.pre_running
    /\ Last.propagated \in BodyErrors

\* the calls so far are start(); step(); step(); end() on the new manager,
\* without a step number and with the default exit state
StartStepStepEnd ==
    /\ Len(trace) = 4
    /\ trace[1].op = "start"
    /\ trace[2].op = "step" /\ trace[2].step = NoStep
    /\ trace[3].op = "step" /\ trace[3].step = NoStep
    /\ trace[4].op = "end" /\ trace[4].exit_state = "normal"

\* C4: start(); step(); step(); end() on a new manager emits exactly four
\* events: Start, Step with step 0, Step with step 1, End with exit_state 'normal'.
C4_StartStepStepEnd ==
    StartStepStepEnd =>
        /\ Len(events) = 4
        /\ IsStart(events[1])
        /\ IsStep(events[2]) /\ events[2].step = 0
        /\ IsStep(events[3]) /\ events[3].step = 1
        /\ IsEnd(events[4]) /\ events[4].exit_state = "normal"

C4_Witness == StartStepStepEnd /\ ~_running /\ _step_count = 2

\* C5: step() on a manager that is not running raises the invalid-state error,
\* emits no event and leaves _running and _step_count as they were.
C5_StepRejected ==
    (LastIs("step") /\ ~Last.pre_running) =>
        /\ Last.raised = Exception("ProgressManager.step() called before start()")
        /\ Len(events) = Last.pre_len
        /\ _running = Last.pre_running
        /\ _step_count = Last.pre_count

\* step() was called after the operation had ended
C5_Witness ==
    /\ LastIs("step")
    /\ ~Last.pre_running
    /\ Len(events) > 0 /\ IsEnd(events[Len(events)])

\* C6: end() on a manager that is not running raises the invalid-state error
\* and emits no event; so between two End events of the log there is a Start event.
C6_EndRejected ==
    /\ (LastIs("end") /\ ~Last.pre_running) =>
          /\ Last.raised = Exception("ProgressManager.end() called before start()")
          /\ Len(events) = Last.pre_len
          /\ ~_running
    /\ \A i, j \in 1..Len(events) :
          (i < j /\ IsEnd(events[i]) /\ IsEnd(events[j])) =>
              \E k \in (i+1)..(j-1) : IsStart(events[k])

\* end() was called directly after an end() that succeeded
C6_Witness ==
    /\ Len(trace) >= 2
    /\ Last.op = "end"
    /\ trace[Len(trace) - 1].op = "end"
    /\ trace[Len(trace) - 1].raised = NoExc
    /\ Last.raised # NoExc

\* C18: calling the manager while it is not running emits a Start event and
\* then one Step event and leaves it running; calling it while it is running
\* emits one Step event and no Start event.
C18_CallableShorthand ==
    LastIs("__call__") =>
        /\ Last.raised = NoExc
        /\ _running
        /\ IF ~Last.pre_running
           THEN /\ Len(events) = Last.pre_len + 2
                /\ IsStart(events[Last.pre_len + 1])
                /\ IsStep(events[Last.pre_len + 2])
           ELSE /\ Len(events) = Last.pre_len + 1
                /\ IsStep(events[Last.pre_len + 1])

\* the new manager was called twice: not running the first time, running the second
C18_Witness ==
    /\ Len(trace) = 2
    /\ trace[1].op = "__call__" /\ ~trace[1].pre_running
    /\ trace[2].op = "__call__" /\ trace[2].pre_running
    /\ Len(events) = 3

\* C19, as claimed: every End event in the log carries one of the exit states
\* normal, warning, error, exception, and after a call that emitted an End
\* event the operation is not running.
C19_ExitStateDocumented ==
    /\ \A i \in 1..Len(events) : IsEnd(events[i]) => events[i].exit_state \in ExitStates
    /\ (Len(trace) > 0 /\ Len(events) > Last.pre_len /\ IsEnd(events[Len(events)]))
           => ~_running

\* the Step events emitted so far
StepEvents == SelectSeq(events, IsStep)

\* no call so far passed a step number
NoStepNumbers == \A i \in 1..Len(trace) : trace[i].step = NoStep

\* the value of the counter after call i
CountAfter(i) == IF i < Len(trace) THEN trace[i + 1].pre_count ELSE _step_count

\* C20: the counter starts at 0 and never decreases; a step() or a call of the
\* manager without a step number that succeeds emits a Step event carrying
\* the value the counter had before the call, and the counter is one more
\* after it; so while no call passes a step number, the n-th Step event
\* carries n-1.
C20_StepCounter ==
    /\ Len(trace) > 0 => trace[1].pre_count = 0
    /\ \A i \in 1..Len(trace) :
          /\ trace[i].pre_count <= CountAfter(i)
          /\ (trace[i].op \in {"step", "__call__"} /\ trace[i].step = NoStep
                 /\ trace[i].raised = NoExc) =>
                /\ IsStep(events[trace[i].post_len])
                /\ events[trace[i].post_len].step = trace[i].pre_count
                /\ CountAfter(i) = trace[i].pre_count + 1
    /\ NoStepNumbers => \A n \in 1..Len(StepEvents) : StepEvents[n].step = n - 1

\* three Step events were emitted and no call passed a step number
C20_Witness ==
    /\ NoStepNumbers
    /\ Len(StepEvents) = 3
    /\ StepEvents[3].step = 2

\* no Start event was emitted before call i
BeforeAnyStart(i) == \A j \in 1..trace[i].pre_len : ~IsStart(events[j])

\* C21: start() always succeeds, emits one Start event and leaves the
\* operation running, also after an end(); step() and end() on a running
\* operation are accepted; before any Start event, step() and end() are
\* rejected with the invalid-state error.
C21_Restart ==
    \A i \in 1..Len(trace) :
        /\ trace[i].op = "start" =>
              /\ trace[i].raised = NoExc
              /\ trace[i].post_len = trace[i].pre_len + 1
              /\ IsStart(events[trace[i].post_len])
              /\ IF i < Len(trace) THEN trace[i + 1].pre_running ELSE _running
        /\ (trace[i].op \in {"step", "end"} /\ trace[i].pre_running) =>
              /\ trace[i].raised = NoExc
              /\ trace[i].post_len = trace[i].pre_len + 1
        /\ (trace[i].op \in {"step", "end"} /\ BeforeAnyStart(i)) =>
              /\ trace[i].raised.type = "Exception"
              /\ trace[i].post_len = trace[i].pre_len

\* start(); end(); start(); step(): the restarted operation accepted the step
C21_Witness ==
    /\ Len(trace) = 4
    /\ trace[1].op = "start"
    /\ trace[2].op = "end" /\ trace[2].raised = NoExc
    /\ trace[3].op = "start" /\ ~trace[3].pre_running
    /\ trace[4].op = "step" /\ trace[4].raised = NoExc
    /\ Len(events) = 4

\* C22: __enter__ on a running operation emits nothing; __exit__ on an
\* operation that is not running (the body called end()) emits nothing and
\* raises no invalid-state error: a body that raised sees its own error
\* propagate, a body that ended normally sees none.
C22_ScopeEdges ==
    /\ (LastIs("__enter__") /\ Last.pre_running) =>
          /\ Len(events) = Last.pre_len
          /\ Last.raised = NoExc
          /\ _running
    /\ (LastIs("__exit__") /\ ~Last.pre_running) =>
          /\ Len(events) = Last.pre_len
          /\ Last.raised = NoExc
          /\ Last.propagated = Last.exc
          /\ ~_running

\* a with block was entered on a running operation, its body called end() and
\* then raised
C22_Witness ==
    /\ LeftByRaising
    /\ ~Last.pre_running
    /\ ScopeEnter.pre_running
    /\ ScopeEnter.post_len = ScopeEnter.pre_len

\* a Start event has been emitted and no End event after the last of them
Open ==
    \E i \in 1..Len(events) :
        /\ IsStart(events[i])
        /\ \A j \in (i + 1)..Len(events) : ~(IsStart(events[j]) \/ IsEnd(events[j]))

\* the Start and End events emitted so far
StartEndEvents == SelectSeq(events, LAMBDA e : IsStart(e) \/ IsEnd(e))

\* C23, as claimed: the operation is running if and only if a Start event has
\* been emitted and no End event after the most recent one, and the Start and
\* End events strictly alternate, beginning with a Start event.
C23_StrictAlternation ==
    /\ _running <=> Open
    /\ \A i \in 1..Len(StartEndEvents) : IsStart(StartEndEvents[i]) <=> i % 2 = 1

\* C23, amended: the operation is running if and only if a Start event has
\* been emitted and no End event after the most recent one; every End event
\* directly follows, among the Start and End events, a Start event (so the
\* first of them is a Start event and no two End events are adjacent), while
\* a Start event may follow another Start event.
C23_RunningIffOpen ==
    /\ _running <=> Open
    /\ \A i \in 1..Len(StartEndEvents) :
          IsEnd(StartEndEvents[i]) => (i > 1 /\ IsStart(StartEndEvents[i - 1]))

\* start() was called on a running operation, which was then ended and restarted
C23_Witness ==
    /\ Len(StartEndEvents) = 4
    /\ IsStart(StartEndEvents[1]) /\ IsStart(StartEndEvents[2])
    /\ IsEnd(StartEndEvents[3]) /\ IsStart(StartEndEvents[4])
    /\ _running

\* C24: the counter equals the number of Step events emitted since the manager
\* was created, whatever the calls were: steps with and without a step
\* number, rejected steps, end() and restarts.
C24_CountsStepEvents == _step_count = Len(StepEvents)

\* a step with a step number, an end(), a rejected step and a restart have
\* happened, and the counter is 1
C24_Witness ==
    /\ Len(trace) = 4
    /\ trace[1].op = "__call__" /\ trace[1].step # NoStep
    /\ trace[2].op = "end" /\ trace[2].raised = NoExc
    /\ trace[3].op = "step" /\ trace[3].raised # NoExc
    /\ trace[4].op = "start"
    /\ _step_count = 1

(***************************************************************************)
(* Properties of the SqliteStore, checked under SpecStore                  *)
(***************************************************************************)
\* the last call was op, made on a store whose connect() had succeeded
ConnectedCall(op) ==
    /\ store_call.op = op
    /\ store_call.pre_connection # None
    /\ Table \in store_call.pre_database.tables

\* the key of the last call had a row before the call
KeyWasPresent == store_call.key \in DOMAIN store_call.pre_database.rows

\* the metadata the key of the last call had before the call
MetadataBefore == convert_dict(store_call.pre_database.rows[store_call.key].metadata)

\* C7: set(k, (data, meta)) on a connected store succeeds, and get(k) then
\* returns a stream whose content is data and a metadata mapping equal to meta.
C7_RoundTrip ==
    ConnectedCall("set") =>
        /\ store_call.raised = NoExc
        /\ LET read == get(STORE, store_call.key)
           IN /\ read.raised = NoExc
              /\ read.ret[1].content = store_call.data
              /\ read.ret[2] = store_call.metadata

\* C8: on a connected store, for a key that has no row, exists(k) returns
\* false and get(k), get_data(k) and get_metadata(k) raise KeyError.
C8_AbsentKey ==
    \A op \in {"exists", "get", "get_data", "get_metadata"} :
        (ConnectedCall(op) /\ ~KeyWasPresent) =>
            IF op = "exists"
            THEN store_call.raised = NoExc /\ store_call.ret = FALSE
            ELSE store_call.raised = KeyError(store_call.key)

\* C9: delete(k) on a connected store, for a key that is present, succeeds;
\* after it exists(k) is false and get(k) raises KeyError, and the call has
\* emitted exactly one event: a StoreDeleteEvent with key k and the metadata
\* k had before the call.
C9_Delete ==
    (ConnectedCall("delete") /\ KeyWasPresent) =>
        /\ store_call.raised = NoExc
        /\ LET found == exists(STORE, store_call.key)
           IN found.raised = NoExc /\ found.ret = FALSE
        /\ get(STORE, store_call.key).raised = KeyError(store_call.key)
        /\ Len(events) = store_call.pre_len + 1
        /\ events[Len(events)] = [type |-> "StoreDeleteEvent", key |-> store_call.key,
                                  metadata |-> MetadataBefore]

\* C10: update_metadata(k, a) on a connected store, for a key with metadata m,
\* succeeds, and after a following update_metadata(k, b) get_metadata(k) is m
\* overridden by a and then by b: the fields of m that neither a nor b
\* mentions keep their values.
C10_UpdateMerges ==
    (ConnectedCall("update_metadata") /\ KeyWasPresent) =>
        /\ store_call.raised = NoExc
        /\ \A b \in Metadatas :
              LET second == update_metadata(STORE, store_call.key, b)
                  read == get_metadata(second, store_call.key, NoSelect)
              IN /\ second.raised = NoExc
                 /\ read.raised = NoExc
                 /\ read.ret = update(update(MetadataBefore, store_call.metadata), b)

\* C11, as claimed: multiset(keys, values) on a connected store raises no
\* error; for every position both lists have, get(keys[i]) then returns the
\* data and the metadata of values[i]; a key beyond the end of values is left
\* untouched: if it had no row, get of it raises KeyError.
C11_MultisetZips ==
    ConnectedCall("multiset") =>
        /\ store_call.raised = NoExc
        /\ \A i \in 1..Len(store_call.keys) :
              LET read == get(STORE, store_call.keys[i])
              IN IF i <= Len(store_call.values)
                 THEN /\ read.raised = NoExc
                      /\ read.ret[1].content = store_call.values[i][1]
                      /\ read.ret[2] = store_call.values[i][2]
                 ELSE store_call.keys[i] \notin DOMAIN store_call.pre_database.rows
                          => read.raised = KeyError(store_call.keys[i])

\* the metadata of the row of key k before the last call
RowMetadata(k) == convert_dict(store_call.pre_database.rows[k].metadata)

\* the metadata m has, for every predicate of the last query, the wanted value
\* (a predicate that wants None is met by a field m does not have)
Satisfies(m) ==
    \A f \in DOMAIN store_call.kwargs :
        \/ f \in DOMAIN m /\ m[f] = store_call.kwargs[f]
        \/ f \notin DOMAIN m /\ store_call.kwargs[f] = None

\* C12: list(query(select, **predicates)) on a connected store succeeds and
\* holds, for every row of the table, one pair if the row's metadata satisfies
\* every predicate and none otherwise (so every row, when there is no
\* predicate); each pair is the key with its metadata, restricted to the
\* fields of select when select is given.
C12_QueryMatches ==
    ConnectedCall("query") =>
        /\ store_call.raised = NoExc
        /\ \A k \in DOMAIN store_call.pre_database.rows :
              Cardinality({i \in 1..Len(store_call.ret) : store_call.ret[i][1] = k})
                  = IF Satisfies(RowMetadata(k)) THEN 1 ELSE 0
        /\ \A i \in 1..Len(store_call.ret) :
              LET k == store_call.ret[i][1]
                  got == store_call.ret[i][2]
              IN /\ k \in DOMAIN store_call.pre_database.rows
                 /\ DOMAIN got = IF store_call.select = NoSelect
                                 THEN DOMAIN RowMetadata(k)
                                 ELSE DOMAIN RowMetadata(k) \cap store_call.select[1]
                 /\ \A f \in DOMAIN got : got[f] = RowMetadata(k)[f]

\* query(status="done") on a table that holds one key with status done and
\* one with status pending yielded only the first
C12_Witness ==
    /\ ConnectedCall("query")
    /\ store_call.kwargs = [status |-> "done"]
    /\ Len(store_call.ret) = 1
    /\ DOMAIN store_call.pre_database.rows = {"k1", "k2"}
    /\ RowMetadata(store_call.ret[1][1])["status"] = "done"
    /\ \E k \in {"k1", "k2"} : dict_get(RowMetadata(k), "status") = "pending"

DataPresent(k) ==
    \/ _data # Missing /\ k \in DOMAIN _data
    \/ get_data(STORE, k).raised = NoExc

\* the store has metadata for key k: in its metadata dictionary or in its table
MetadataPresent(k) ==
    \/ _metadata # Missing /\ k \in DOMAIN _metadata
    \/ get_metadata(STORE, k, NoSelect).raised = NoExc

C15_ExistsIffGet ==
    ConnectedCall("exists") =>
        /\ store_call.raised = NoExc
        /\ store_call.ret = TRUE <=> get(STORE, store_call.key).raised = NoExc

\* C16, as claimed: delete(k) on a connected store either succeeds and leaves
\* k with neither data nor metadata, or, for a key that was absent, raises
\* KeyError, emits no event and leaves the table as it was.
C16_DeleteAllOrNothing ==
    ConnectedCall("delete") =>
        IF KeyWasPresent
        THEN /\ store_call.raised = NoExc
             /\ get_data(STORE, store_call.key).raised = KeyError(store_call.key)
             /\ get_metadata(STORE, store_call.key, NoSelect).raised
                    = KeyError(store_call.key)
        ELSE /\ store_call.raised = KeyError(store_call.key)
             /\ Len(events) = store_call.pre_len
             /\ database = store_call.pre_database

\* the store-mutation events the last call emitted
MutationEvents ==
    SelectSeq(SubSeq(events, store_call.pre_len + 1, Len(events)),
              LAMBDA e : e.type \in {"StoreSetEvent", "StoreUpdateEvent",
                                     "StoreDeleteEvent"})

\* C17, as claimed: set_data(k, data) on a connected store succeeds and emits
\* exactly one store-mutation event for k: a StoreUpdateEvent if k was
\* present before the call, a StoreSetEvent otherwise.
C17_OneMutationEvent ==
    ConnectedCall("set_data") =>
        /\ store_call.raised = NoExc
        /\ Len(MutationEvents) = 1
        /\ MutationEvents[1].key = store_call.key
        /\ MutationEvents[1].type =
              IF KeyWasPresent THEN "StoreUpdateEvent" ELSE "StoreSetEvent"

\* the events the last call on the store emitted
CallEvents == SubSeq(events, store_call.pre_len + 1, Len(events))

\* C25, as claimed: set_data(k, data) on a connected store, from a source that
\* reads to its end, succeeds and emits, in this order: a progress Start event
\* with steps -1, Step events only, a progress End event with exit_state
\* 'normal', and last the one store-mutation event for k.
C25_EventOrder ==
    (ConnectedCall("set_data") /\ ~read_fails(store_call.data)) =>
        /\ store_call.raised = NoExc
        /\ Len(CallEvents) >= 3
        /\ IsStart(CallEvents[1]) /\ CallEvents[1].steps = -1
        /\ \A i \in 2..(Len(CallEvents) - 2) : IsStep(CallEvents[i])
        /\ IsEnd(CallEvents[Len(CallEvents) - 1])
        /\ CallEvents[Len(CallEvents) - 1].exit_state = "normal"
        /\ CallEvents[Len(CallEvents)].type \in {"StoreSetEvent", "StoreUpdateEvent"}
        /\ CallEvents[Len(CallEvents)].key = store_call.key

\* C26, as claimed: set_data(k, data) on a connected store, from a source
\* whose read fails part-way, raises the read error after emitting a progress
\* End event with exit_state 'exception' as its last event, leaves the stored
\* data as it was and emits no store-mutation event.
C26_ReadFailure ==
    (ConnectedCall("set_data") /\ read_fails(store_call.data)) =>
        /\ store_call.raised = ReadError
        /\ Len(CallEvents) >= 2
        /\ IsEnd(CallEvents[Len(CallEvents)])
        /\ CallEvents[Len(CallEvents)].exit_state = "exception"
        /\ database = store_call.pre_database
        /\ \A k \in Keys : ~(_data # Missing /\ k \in DOMAIN _data)
        /\ Len(MutationEvents) = 0

====
